---- MODULE Spec2Model ----
(***************************************************************************)
(* The two tutorial notebooks of the repository, run top to bottom in a    *)
(* fresh kernel: getting-started.ipynb ("gs") and                          *)
(* conditional-generation.ipynb ("cg").  A state is the kernel's namespace *)
(* (names bound to DataFrame objects on a heap, to Generator handles, to   *)
(* other values), the position in the notebook, the log of calls made to   *)
(* the SDK, and the generators the remote service holds.  Every code cell  *)
(* is one action; a cell that calls train, probe or generate is split at   *)
(* the call into issuing it and its return or its error.  A cell that      *)
(* raises leaves the names it had bound so far, and the next cell may be   *)
(* run all the same (a "Run All" that stops at the error is a prefix).     *)
(* The SDK itself (train, probe, generate) is not part of the notebooks;   *)
(* it is modelled from its documented interface.  Only SDK calls fail:     *)
(* pip, read_csv and the local pandas/matplotlib code are taken to work.   *)
(***************************************************************************)
EXTENDS Integers, Sequences, FiniteSets, TLC

VARIABLES nb, pc, waiting, frames, heap, nextId, gens, bound, config,
          outcome, calls, remote, out

vars == <<nb, pc, waiting, frames, heap, nextId, gens, bound, config,
          outcome, calls, remote, out>>

(***************************************************************************)
(* Bounds.  The datasets and the row counts written in the notebooks are   *)
(* scaled down; each bound stands for the number named beside it.          *)
(***************************************************************************)
\* rows of a fetched dataset (census.csv.gz, airbnb.csv.gz)
NRows == 2
\* rows asked of the unseeded probe (size=100)
ProbeSize == 1
\* rows asked of generate (size=100_000)
GenerateSize == 2
\* rows of the getting-started seed ([24] * 1_000)
SeedSize == 2
\* rows of the use case 1 seed (n = 48_842)
n == 1

\* price.clip(lower=50, upper=2_000)
ClipLower == 50
ClipUpper == 2000

(***************************************************************************)
(* Data.  A table is [cols, rows]: a set of column names and a sequence of *)
(* rows, each a function from cols to values.  Values come from a few      *)
(* sample profiles; latitude and longitude are in tenths of a degree.      *)
(***************************************************************************)
Profiles == {1, 2, 3}

Abs(v) == IF v < 0 THEN 0 - v ELSE v

\* str() of a float with one decimal: 40.7 -> "40.7", -74.0 -> "-74.0"
FloatStr(v) ==
    (IF v < 0 THEN "-" ELSE "") \o ToString(Abs(v) \div 10) \o "."
        \o ToString(Abs(v) % 10)

\* df["latitude"].astype(str) + ", " + df["longitude"].astype(str), one row
LatLongText(lat, lon) == FloatStr(lat) \o ", " \o FloatStr(lon)

CensusColumns == {"age", "sex", "income", "native_country"}

AirbnbGeoColumns == {"latitude", "longitude"}

\* the columns the notebook's code reads from the AirBnB data
AirbnbAccessed == {"latitude", "longitude", "neighbourhood", "price"}

\* the value of column c in sample profile k
Value(c, k) ==
    CASE c = "age" -> <<24, 40, 61>>[k]
      [] c = "sex" -> <<"Male", "Female", "Female">>[k]
      [] c = "income" -> <<"<=50K", ">50K", "<=50K">>[k]
      [] c = "native_country" -> <<"Mexico", "Cuba", "Peru">>[k]
      [] c = "latitude" -> <<407, 408, 408>>[k]
      [] c = "longitude" -> <<-740, -739, -740>>[k]
      [] c = "price" -> <<30, 100, 3000>>[k]
      [] c = "neighbourhood" -> <<"SoHo", "Harlem", "Harlem">>[k]
      [] c = "LAT_LONG" -> LatLongText(<<407, 408, 408>>[k], <<-740, -739, -740>>[k])
      [] OTHER -> <<"a", "b", "c">>[k]

SampleRow(cols, k) == [c \in cols |-> Value(c, k)]

RECURSIVE SeqsOfLen(_, _)
SeqsOfLen(S, len) ==
    IF len = 0 THEN {<<>>}
    ELSE {Append(s, x) : s \in SeqsOfLen(S, len - 1), x \in S}

\* The profiles of len rows in a row: one profile throughout, or the
\* profiles in turn from any first one.
Runs(len) ==
    {[i \in 1..len |-> k] : k \in Profiles}
        \cup {[i \in 1..len |-> ((k + i - 2) % Cardinality(Profiles)) + 1] :
                k \in Profiles}

\* what pd.read_csv may fetch: len rows over the columns cols
Tables(cols, len) ==
    {[cols |-> cols, rows |-> [i \in 1..len |-> SampleRow(cols, r[i])]] :
        r \in Runs(len)}

NoTable == [cols |-> {}, rows |-> <<>>]

NRowsOf(t) == Len(t.rows)

\* df[c] = vals, on the table of the assigned object
SetColumn(t, c, vals) ==
    [cols |-> t.cols \cup {c},
     rows |-> [i \in 1..NRowsOf(t) |->
                 [d \in t.cols \cup {c} |-> IF d = c THEN vals[i] ELSE t.rows[i][d]]]]

\* df.drop(columns=cs): a new table
DropColumns(t, cs) ==
    [cols |-> t.cols \ cs,
     rows |-> [i \in 1..NRowsOf(t) |-> [d \in t.cols \ cs |-> t.rows[i][d]]]]

\* df[[c1, c2]]: a new table of the listed columns, rows in order
SelectColumns(t, cs) ==
    [cols |-> cs,
     rows |-> [i \in 1..NRowsOf(t) |-> [d \in cs |-> t.rows[i][d]]]]

(***************************************************************************)
(* The kernel's namespace and heap.  frames binds names to DataFrame       *)
(* objects (heap ids), so that two names may share one object; an object   *)
(* no name refers to is freed, and its id is not used again.               *)
(***************************************************************************)
Bound(name) == name \in DOMAIN frames

Frame(name) == heap[frames[name]]

ConfigRefs(cfgs) == {c.tables[1].data : c \in cfgs}

Collect(h, f, cfgs) ==
    [i \in ({f[x] : x \in DOMAIN f} \cup ConfigRefs(cfgs)) \cap DOMAIN h |-> h[i]]

\* name = <a new DataFrame, with id id, holding t>
BindNew(f, h, id, name, t) ==
    LET f2 == [x \in DOMAIN f \cup {name} |-> IF x = name THEN id ELSE f[x]]
    IN  <<f2, (id :> t) @@ h>>

\* name = <a new DataFrame holding t>, as the only assignment of a step
Assign(name, t) ==
    LET b == BindNew(frames, heap, nextId, name, t)
    IN  /\ frames' = b[1]
        /\ heap' = Collect(b[2], b[1], config)
        /\ nextId' = nextId + 1

Empty == [x \in {} |-> 0]

(***************************************************************************)
(* The SDK, from its documented interface:                                 *)
(*   train(config, start=True, wait=True) -> Generator                     *)
(*   probe(generator, size?, seed?) -> table                               *)
(*   generate(generator, size) -> SyntheticDataset, .data() -> table       *)
(* train creates the generator on the service and starts its training;     *)
(* with wait it returns once the training is done, otherwise at once.  A   *)
(* call may fail at any time (network, configuration, training), and the   *)
(* error is raised to the caller.                                          *)
(***************************************************************************)
SdkDefaultStart == TRUE

SdkDefaultWait == TRUE

\* the service's record of a new generator trained on the uploaded table
SdkNewGenerator(cfg, data, start) ==
    [name |-> cfg.name, cols |-> data.cols,
     status |-> IF start THEN "QUEUED" ELSE "NEW"]

\* train returns: after the training when it waits, at once otherwise
SdkTrainReturns(status, wait) == wait => status = "DONE"

\* the tables a probe or generate may return: one row per seed row when a
\* seed is given, else size rows; the seed's values in the seed's columns,
\* sampled values elsewhere; rows in the seed's order
SdkSample(gen, hasSeed, seed, size) ==
    LET cnt == IF hasSeed THEN NRowsOf(seed) ELSE size
    IN  {[cols |-> gen.cols,
          rows |-> [i \in 1..cnt |->
                      [c \in gen.cols |->
                          IF hasSeed /\ c \in seed.cols
                          THEN seed.rows[i][c] ELSE Value(c, ks[i])]]] :
            ks \in Runs(cnt)}

\* a generator can be sampled once it is trained
SdkCanSample(gen) == gen.status = "DONE"

(***************************************************************************)
(* Notebook execution.                                                     *)
(***************************************************************************)
GS_Cells == <<"gs_pip", "gs_load", "gs_init", "gs_train", "gs_probe",
              "gs_generate", "gs_seed_probe">>

CG_Cells == <<"cg_pip", "cg_load", "cg_init", "cg_train", "cg_seed",
              "cg_probe", "cg_sample", "cg_plot_age", "cg_load_airbnb",
              "cg_preprocess", "cg_train_airbnb", "cg_probe_airbnb",
              "cg_plot_manhatten">>

Cells(b) == IF b = "gs" THEN GS_Cells ELSE CG_Cells

\* the kernel is about to run the cell
At(cell) == pc <= Len(Cells(nb)) /\ Cells(nb)[pc] = cell /\ ~waiting

\* the kernel is inside the cell's SDK call
In(cell) == pc <= Len(Cells(nb)) /\ Cells(nb)[pc] = cell /\ waiting

\* the cell ends, with "ok" or with "error" (an exception shown to the user)
Finish(cell, how) ==
    /\ outcome' = (cell :> how) @@ outcome
    /\ pc' = pc + 1
    /\ waiting' = FALSE

Outstanding == {i \in DOMAIN calls : calls[i].state = "outstanding"}

CallOf(cell) ==
    CHOOSE i \in DOMAIN calls : calls[i].site = cell /\ calls[i].state = "outstanding"

Init ==
    /\ nb \in {"gs", "cg"}
    /\ pc = 1
    /\ waiting = FALSE
    /\ frames = Empty
    /\ heap = Empty
    /\ nextId = 1
    /\ gens = Empty
    /\ bound = {}
    /\ config = {}
    /\ outcome = Empty
    /\ calls = <<>>
    /\ remote = Empty
    /\ out = <<>>

\* g = mostly.train(config=cfg, start=.., wait=..): the call is sent
TrainCall(cell, cfg, start, wait) ==
    LET id == Cardinality(DOMAIN remote) + 1
        data == heap[cfg.tables[1].data]
    IN  /\ remote' = (id :> SdkNewGenerator(cfg, data, start)) @@ remote
        /\ calls' = Append(calls,
              [site |-> cell, op |-> "train", gen |-> id, config |-> cfg,
               cols |-> data.cols, start |-> start, wait |-> wait,
               state |-> "outstanding"])
        /\ waiting' = TRUE

\* mostly.probe(gen, size=.., seed=..) or mostly.generate(gen, size=..): sent
SampleCall(cell, op, gen, hasSeed, seed, size) ==
    /\ calls' = Append(calls,
          [site |-> cell, op |-> op, gen |-> gen, hasSeed |-> hasSeed,
           seed |-> seed, size |-> size, result |-> NoTable,
           state |-> "outstanding"])
    /\ waiting' = TRUE

\* the outstanding call of the cell raises: nothing is assigned, the rest of
\* the cell does not run
CallRaises(cell) ==
    /\ In(cell)
    /\ calls' = [calls EXCEPT ![CallOf(cell)].state = "failed"]
    /\ Finish(cell, "error")
    /\ UNCHANGED <<nb, frames, heap, nextId, gens, bound, config, remote, out>>

\* a name the cell reads is not bound: NameError before anything else
NameError(cell) ==
    /\ At(cell)
    /\ Finish(cell, "error")
    /\ UNCHANGED <<nb, frames, heap, nextId, gens, bound, config, calls, remote, out>>

\* the service: a queued training finishes, or fails
SdkTrainDone ==
    \E id \in DOMAIN remote :
        /\ remote[id].status = "QUEUED"
        /\ remote' = [remote EXCEPT ![id].status = "DONE"]
        /\ UNCHANGED <<nb, pc, waiting, frames, heap, nextId, gens, bound, config,
                       outcome, calls, out>>

SdkTrainFail ==
    \E id \in DOMAIN remote :
        /\ remote[id].status = "QUEUED"
        /\ remote' = [remote EXCEPT ![id].status = "FAILED"]
        /\ UNCHANGED <<nb, pc, waiting, frames, heap, nextId, gens, bound, config,
                       outcome, calls, out>>

(***************************************************************************)
(* getting-started.ipynb                                                   *)
(***************************************************************************)
\* %pip install -U mostlyai
GS_Pip ==
    /\ At("gs_pip")
    /\ Finish("gs_pip", "ok")
    /\ UNCHANGED <<nb, frames, heap, nextId, gens, bound, config, calls, remote, out>>

\* df_original = pd.read_csv(census)
GS_Load ==
    /\ At("gs_load")
    /\ \E t \in Tables(CensusColumns, NRows) :
         Assign("df_original", t)
    /\ bound' = bound \cup {"pd", "repo_url"}
    /\ Finish("gs_load", "ok")
    /\ UNCHANGED <<nb, gens, config, calls, remote, out>>

\* mostly = MostlyAI()
GS_Init ==
    /\ At("gs_init")
    /\ bound' = bound \cup {"MostlyAI", "mostly"}
    /\ Finish("gs_init", "ok")
    /\ UNCHANGED <<nb, frames, heap, nextId, gens, config, calls, remote, out>>

GS_TrainConfig ==
    [name |-> "US Census Income",
     tables |-> <<[name |-> "census", data |-> frames["df_original"],
                   tabular_model_configuration |-> [max_training_time |-> 1]]>>]

GS_TrainStart == TRUE

\* a faulty variant: wait=False
GS_TrainWait_Off == FALSE

GS_TrainWait == TRUE

\* g = mostly.train(config={...}, start=True, wait=True)
GS_Train_Call ==
    /\ At("gs_train")
    /\ TrainCall("gs_train", GS_TrainConfig, GS_TrainStart, GS_TrainWait)
    /\ UNCHANGED <<nb, pc, frames, heap, nextId, gens, bound, config, outcome, out>>

\* ... the call returns, g is assigned; g.reports(display=True)
GS_Train_Return ==
    /\ In("gs_train")
    /\ LET i == CallOf("gs_train")
       IN  /\ SdkTrainReturns(remote[calls[i].gen].status, calls[i].wait)
           /\ calls' = [calls EXCEPT ![i].state = "returned"]
           /\ gens' = ("g" :> calls[i].gen) @@ gens
           /\ out' = Append(out, [cell |-> "gs_train", kind |-> "reports",
                                  gen |-> calls[i].gen])
    /\ Finish("gs_train", "ok")
    /\ UNCHANGED <<nb, frames, heap, nextId, bound, config, remote>>

\* a faulty variant: the cell catches the error of train and goes on
GS_Train_Raise_Caught ==
    /\ In("gs_train")
    /\ calls' = [calls EXCEPT ![CallOf("gs_train")].state = "failed"]
    /\ Finish("gs_train", "ok")
    /\ UNCHANGED <<nb, frames, heap, nextId, gens, bound, config, remote, out>>

GS_Train_Raise == CallRaises("gs_train")

\* a faulty variant: the probe is sent and the notebook goes on without
\* waiting for its result
GS_Probe_Call_NoWait ==
    /\ At("gs_probe")
    /\ "g" \in DOMAIN gens
    /\ calls' = Append(calls,
          [site |-> "gs_probe", op |-> "probe", gen |-> gens["g"],
           hasSeed |-> FALSE, seed |-> NoTable, size |-> ProbeSize,
           result |-> NoTable, state |-> "outstanding"])
    /\ outcome' = ("gs_probe" :> "ok") @@ outcome
    /\ pc' = pc + 1
    /\ UNCHANGED <<nb, waiting, frames, heap, nextId, gens, bound, config,
                   remote, out>>

\* df_samples = mostly.probe(g, size=100)
GS_Probe_Call ==
    /\ At("gs_probe")
    /\ "g" \in DOMAIN gens
    /\ SampleCall("gs_probe", "probe", gens["g"], FALSE, NoTable, ProbeSize)
    /\ UNCHANGED <<nb, pc, frames, heap, nextId, gens, bound, config, outcome,
                   remote, out>>

GS_Probe_NameError ==
    /\ "g" \notin DOMAIN gens
    /\ NameError("gs_probe")

GS_Probe_Return ==
    /\ In("gs_probe")
    /\ LET i == CallOf("gs_probe")
       IN  /\ SdkCanSample(remote[calls[i].gen])
           /\ \E t \in SdkSample(remote[calls[i].gen], calls[i].hasSeed,
                                 calls[i].seed, calls[i].size) :
                /\ calls' = [calls EXCEPT ![i].state = "returned",
                                          ![i].result = t]
                /\ Assign("df_samples", t)
    /\ Finish("gs_probe", "ok")
    /\ UNCHANGED <<nb, gens, bound, config, remote, out>>

GS_Probe_Raise == CallRaises("gs_probe")

\* sd = mostly.generate(g, size=100_000)
GS_Generate_Call ==
    /\ At("gs_generate")
    /\ "g" \in DOMAIN gens
    /\ SampleCall("gs_generate", "generate", gens["g"], FALSE, NoTable,
                  GenerateSize)
    /\ UNCHANGED <<nb, pc, frames, heap, nextId, gens, bound, config, outcome,
                   remote, out>>

GS_Generate_NameError ==
    /\ "g" \notin DOMAIN gens
    /\ NameError("gs_generate")

\* ... sd is assigned; df_synthetic = sd.data()
GS_Generate_Return ==
    /\ In("gs_generate")
    /\ LET i == CallOf("gs_generate")
       IN  /\ SdkCanSample(remote[calls[i].gen])
           /\ \E t \in SdkSample(remote[calls[i].gen], calls[i].hasSeed,
                                 calls[i].seed, calls[i].size) :
                /\ calls' = [calls EXCEPT ![i].state = "returned",
                                          ![i].result = t]
                /\ Assign("df_synthetic", t)
    /\ bound' = bound \cup {"sd"}
    /\ Finish("gs_generate", "ok")
    /\ UNCHANGED <<nb, gens, config, remote, out>>

GS_Generate_Raise == CallRaises("gs_generate")

\* a faulty variant: another age in the seed
GS_Seed_OtherAge ==
    [cols |-> {"age", "native_country"},
     rows |-> [i \in 1..SeedSize |-> [age |-> 42, native_country |-> "Mexico"]]]

\* a faulty variant: a seed column the census table does not have
GS_Seed_OtherColumn ==
    [cols |-> {"age", "country"},
     rows |-> [i \in 1..SeedSize |-> [age |-> 24, country |-> "Mexico"]]]

\* pd.DataFrame({"age": [24] * 1_000, "native_country": ["Mexico"] * 1_000})
GS_Seed ==
    [cols |-> {"age", "native_country"},
     rows |-> [i \in 1..SeedSize |-> [age |-> 24, native_country |-> "Mexico"]]]

\* df_seed = pd.DataFrame(...); df_samples = mostly.probe(g, seed=df_seed)
GS_SeedProbe_Call ==
    /\ At("gs_seed_probe")
    /\ "g" \in DOMAIN gens
    /\ Assign("df_seed", GS_Seed)
    /\ SampleCall("gs_seed_probe", "probe", gens["g"], TRUE, GS_Seed, 0)
    /\ UNCHANGED <<nb, pc, gens, bound, config, outcome, remote, out>>

\* df_seed is assigned, then g is not defined
GS_SeedProbe_NameError ==
    /\ At("gs_seed_probe")
    /\ "g" \notin DOMAIN gens
    /\ Assign("df_seed", GS_Seed)
    /\ Finish("gs_seed_probe", "error")
    /\ UNCHANGED <<nb, gens, bound, config, calls, remote, out>>

GS_SeedProbe_Return ==
    /\ In("gs_seed_probe")
    /\ LET i == CallOf("gs_seed_probe")
       IN  /\ SdkCanSample(remote[calls[i].gen])
           /\ \E t \in SdkSample(remote[calls[i].gen], calls[i].hasSeed,
                                 calls[i].seed, calls[i].size) :
                /\ calls' = [calls EXCEPT ![i].state = "returned",
                                          ![i].result = t]
                /\ Assign("df_samples", t)
    /\ Finish("gs_seed_probe", "ok")
    /\ UNCHANGED <<nb, gens, bound, config, remote, out>>

GS_SeedProbe_Raise == CallRaises("gs_seed_probe")

(***************************************************************************)
(* conditional-generation.ipynb                                            *)
(***************************************************************************)
\* %pip install -U mostlyai
CG_Pip ==
    /\ At("cg_pip")
    /\ Finish("cg_pip", "ok")
    /\ UNCHANGED <<nb, frames, heap, nextId, gens, bound, config, calls,
                   remote, out>>

\* df = pd.read_csv(census)
CG_Load ==
    /\ At("cg_load")
    /\ \E t \in Tables(CensusColumns, NRows) : Assign("df", t)
    /\ bound' = bound \cup {"pd"}
    /\ Finish("cg_load", "ok")
    /\ UNCHANGED <<nb, gens, config, calls, remote, out>>

\* mostly = MostlyAI()
CG_Init ==
    /\ At("cg_init")
    /\ bound' = bound \cup {"MostlyAI", "mostly"}
    /\ Finish("cg_init", "ok")
    /\ UNCHANGED <<nb, frames, heap, nextId, gens, config, calls, remote, out>>

CG_CensusConfig ==
    [name |-> "Conditional Generation Tutorial Census",
     tables |-> <<[name |-> "data", data |-> frames["df"],
                   tabular_model_configuration |-> [max_training_time |-> 1]]>>]

\* g = mostly.train(config={...}): start and wait are left to their defaults
CG_Train_Call ==
    /\ At("cg_train")
    /\ TrainCall("cg_train", CG_CensusConfig, SdkDefaultStart, SdkDefaultWait)
    /\ UNCHANGED <<nb, pc, frames, heap, nextId, gens, bound, config,
                   outcome, out>>

CG_Train_Return ==
    /\ In("cg_train")
    /\ LET i == CallOf("cg_train")
       IN  /\ SdkTrainReturns(remote[calls[i].gen].status, calls[i].wait)
           /\ calls' = [calls EXCEPT ![i].state = "returned"]
           /\ gens' = ("g" :> calls[i].gen) @@ gens
    /\ Finish("cg_train", "ok")
    /\ UNCHANGED <<nb, frames, heap, nextId, bound, config, remote, out>>

CG_Train_Raise == CallRaises("cg_train")

\* the values np.random.choice(["<=50K", ">50K"], p=[1 - p_inc, p_inc]) can
\* draw, p_inc being the share of rows of t with income ">50K"
IncomeChoices(t) ==
    LET hi == {i \in 1..NRowsOf(t) : t.rows[i]["income"] = ">50K"}
    IN  IF hi = {} THEN {"<=50K"}
        ELSE IF hi = 1..NRowsOf(t) THEN {">50K"}
        ELSE {"<=50K", ">50K"}

\* the seeds pd.DataFrame({"sex": ..., "income": ...}) of n random rows
CG_Seeds(t) ==
    {[cols |-> {"sex", "income"}, rows |-> r] :
        r \in SeqsOfLen([sex : {"Male", "Female"}, income : IncomeChoices(t)], n)}

\* np.random.seed(1); n = 48_842; p_inc = ...; seed = pd.DataFrame(...)
CG_Seed ==
    /\ At("cg_seed")
    /\ \E t \in CG_Seeds(Frame("df")) : Assign("seed", t)
    /\ bound' = bound \cup {"np", "n", "p_inc"}
    /\ out' = Append(out, [cell |-> "cg_seed", kind |-> "display"])
    /\ Finish("cg_seed", "ok")
    /\ UNCHANGED <<nb, gens, config, calls, remote>>

\* syn = mostly.probe(generator=g, seed=seed)
CG_Probe_Call ==
    /\ At("cg_probe")
    /\ "g" \in DOMAIN gens
    /\ SampleCall("cg_probe", "probe", gens["g"], TRUE, Frame("seed"), 0)
    /\ UNCHANGED <<nb, pc, frames, heap, nextId, gens, bound, config,
                   outcome, remote, out>>

CG_Probe_NameError ==
    /\ "g" \notin DOMAIN gens
    /\ NameError("cg_probe")

\* ... syn is assigned; print(syn.shape[0], syn.shape[1])
CG_Probe_Return ==
    /\ In("cg_probe")
    /\ LET i == CallOf("cg_probe")
       IN  /\ SdkCanSample(remote[calls[i].gen])
           /\ \E t \in SdkSample(remote[calls[i].gen], calls[i].hasSeed,
                                 calls[i].seed, calls[i].size) :
                /\ calls' = [calls EXCEPT ![i].state = "returned",
                                          ![i].result = t]
                /\ Assign("syn", t)
                /\ out' = Append(out, [cell |-> "cg_probe", kind |-> "print",
                                       records |-> NRowsOf(t),
                                       attributes |-> Cardinality(t.cols)])
    /\ Finish("cg_probe", "ok")
    /\ UNCHANGED <<nb, gens, bound, config, remote>>

CG_Probe_Raise == CallRaises("cg_probe")

\* syn.sample(n=10)
CG_Sample ==
    /\ At("cg_sample")
    /\ IF Bound("syn")
       THEN /\ out' = Append(out, [cell |-> "cg_sample", kind |-> "display"])
            /\ Finish("cg_sample", "ok")
       ELSE /\ out' = out
            /\ Finish("cg_sample", "error")
    /\ UNCHANGED <<nb, frames, heap, nextId, gens, bound, config, calls, remote>>

\* import matplotlib.pyplot as plt; the kde of the female ages of df, then of
\* syn (not defined when the probe failed); the plot is recorded by the
\* objects it was drawn from
CG_PlotAge ==
    /\ At("cg_plot_age")
    /\ bound' = bound \cup {"plt"}
    /\ IF Bound("syn")
       THEN /\ out' = Append(out, [cell |-> "cg_plot_age", kind |-> "kde",
                                   original |-> frames["df"],
                                   synthetic |-> frames["syn"]])
            /\ Finish("cg_plot_age", "ok")
       ELSE /\ out' = out
            /\ Finish("cg_plot_age", "error")
    /\ UNCHANGED <<nb, frames, heap, nextId, gens, config, calls, remote>>

\* a faulty variant: price is given the encoding of LAT_LONG
CG_AirbnbColumns_PriceLatLong ==
    <<[name |-> "neighbourhood_group", model_encoding_type |-> "TABULAR_CATEGORICAL"],
      [name |-> "neighbourhood", model_encoding_type |-> "TABULAR_CATEGORICAL"],
      [name |-> "room_type", model_encoding_type |-> "TABULAR_CATEGORICAL"],
      [name |-> "price", model_encoding_type |-> "TABULAR_LAT_LONG"],
      [name |-> "minimum_nights", model_encoding_type |-> "TABULAR_NUMERIC_AUTO"],
      [name |-> "number_of_reviews", model_encoding_type |-> "TABULAR_NUMERIC_AUTO"],
      [name |-> "last_review", model_encoding_type |-> "TABULAR_DATETIME"],
      [name |-> "reviews_per_month", model_encoding_type |-> "TABULAR_NUMERIC_AUTO"],
      [name |-> "availability_365", model_encoding_type |-> "TABULAR_NUMERIC_AUTO"],
      [name |-> "LAT_LONG", model_encoding_type |-> "TABULAR_LAT_LONG"]>>

\* the column configuration of the AirBnB table
CG_AirbnbColumns ==
    <<[name |-> "neighbourhood_group", model_encoding_type |-> "TABULAR_CATEGORICAL"],
      [name |-> "neighbourhood", model_encoding_type |-> "TABULAR_CATEGORICAL"],
      [name |-> "room_type", model_encoding_type |-> "TABULAR_CATEGORICAL"],
      [name |-> "price", model_encoding_type |-> "TABULAR_NUMERIC_AUTO"],
      [name |-> "minimum_nights", model_encoding_type |-> "TABULAR_NUMERIC_AUTO"],
      [name |-> "number_of_reviews", model_encoding_type |-> "TABULAR_NUMERIC_AUTO"],
      [name |-> "last_review", model_encoding_type |-> "TABULAR_DATETIME"],
      [name |-> "reviews_per_month", model_encoding_type |-> "TABULAR_NUMERIC_AUTO"],
      [name |-> "availability_365", model_encoding_type |-> "TABULAR_NUMERIC_AUTO"],
      [name |-> "LAT_LONG", model_encoding_type |-> "TABULAR_LAT_LONG"]>>

\* The AirBnB file is not part of the repository.  The notebook names
\* eleven of its columns: latitude and longitude, and the nine that the
\* column configuration lists beside LAT_LONG.  Its text counts ten, so the
\* file may have all eleven, or lack any one that the code does not read.
AirbnbNamedColumns ==
    ({CG_AirbnbColumns[i].name : i \in DOMAIN CG_AirbnbColumns} \ {"LAT_LONG"})
        \cup AirbnbGeoColumns

AirbnbSchemas ==
    {AirbnbNamedColumns}
        \cup {AirbnbNamedColumns \ {c} : c \in AirbnbNamedColumns \ AirbnbAccessed}

\* df_orig = pd.read_csv(airbnb)
CG_LoadAirbnb ==
    /\ At("cg_load_airbnb")
    /\ \E cols \in AirbnbSchemas : \E t \in Tables(cols, NRows) :
         Assign("df_orig", t)
    /\ Finish("cg_load_airbnb", "ok")
    /\ UNCHANGED <<nb, gens, bound, config, calls, remote, out>>

\* df["latitude"].astype(str) + ", " + df["longitude"].astype(str)
LatLongColumn(t) ==
    [i \in 1..NRowsOf(t) |->
        LatLongText(t.rows[i]["latitude"], t.rows[i]["longitude"])]

\* a faulty variant: LAT_LONG is left out of the seed columns
seed_cols_NoLatLong == {"neighbourhood"}

seed_cols == {"neighbourhood", "LAT_LONG"}

\* a faulty variant: df = df_orig, the same object under a second name
CopyFrame_Alias(f, h, id, src) ==
    <<[x \in DOMAIN f \cup {"df"} |-> IF x = "df" THEN f[src] ELSE f[x]], h>>

\* df = df_orig.copy(): a new object, bound to df
CopyFrame(f, h, id, src) == BindNew(f, h, id, "df", h[f[src]])

\* df = df_orig.copy(); df["LAT_LONG"] = ...; df = df.drop(columns=[...]);
\* seed_cols = [...]; df_seed = df[seed_cols]; display(df_seed.head())
CG_Preprocess ==
    /\ At("cg_preprocess")
    /\ LET b1 == CopyFrame(frames, heap, nextId, "df_orig")
           f1 == b1[1]
           \* the assignment of a column changes the object df refers to
           h1 == [b1[2] EXCEPT ![f1["df"]] =
                     SetColumn(@, "LAT_LONG", LatLongColumn(@))]
           b2 == BindNew(f1, h1, nextId + 1, "df",
                         DropColumns(h1[f1["df"]], AirbnbGeoColumns))
           b3 == BindNew(b2[1], b2[2], nextId + 2, "df_seed",
                         SelectColumns(b2[2][b2[1]["df"]], seed_cols))
       IN  /\ frames' = b3[1]
           /\ heap' = Collect(b3[2], b3[1], config)
           /\ nextId' = nextId + 3
    /\ bound' = bound \cup {"seed_cols"}
    /\ out' = Append(out, [cell |-> "cg_preprocess", kind |-> "display"])
    /\ Finish("cg_preprocess", "ok")
    /\ UNCHANGED <<nb, gens, config, calls, remote>>

\* a faulty variant: the fetched table, not the preprocessed one, is passed
CG_AirbnbConfig_PassesOrig ==
    [name |-> "Conditional Generation Tutorial AirBnB",
     tables |-> <<[name |-> "AirBnB", data |-> frames["df_orig"],
                   columns |-> CG_AirbnbColumns,
                   tabular_model_configuration |-> [max_training_time |-> 2]]>>]

CG_AirbnbConfig ==
    [name |-> "Conditional Generation Tutorial AirBnB",
     tables |-> <<[name |-> "AirBnB", data |-> frames["df"],
                   columns |-> CG_AirbnbColumns,
                   tabular_model_configuration |-> [max_training_time |-> 2]]>>]

\* config = {...}; g_airbnb = mostly.train(config=config)
CG_TrainAirbnb_Call ==
    /\ At("cg_train_airbnb")
    /\ config' = {CG_AirbnbConfig}
    /\ TrainCall("cg_train_airbnb", CG_AirbnbConfig, SdkDefaultStart,
                 SdkDefaultWait)
    /\ UNCHANGED <<nb, pc, frames, heap, nextId, gens, bound, outcome, out>>

CG_TrainAirbnb_Return ==
    /\ In("cg_train_airbnb")
    /\ LET i == CallOf("cg_train_airbnb")
       IN  /\ SdkTrainReturns(remote[calls[i].gen].status, calls[i].wait)
           /\ calls' = [calls EXCEPT ![i].state = "returned"]
           /\ gens' = ("g_airbnb" :> calls[i].gen) @@ gens
    /\ Finish("cg_train_airbnb", "ok")
    /\ UNCHANGED <<nb, frames, heap, nextId, bound, config, remote, out>>

CG_TrainAirbnb_Raise == CallRaises("cg_train_airbnb")

\* a faulty variant: the probe of use case 2 passes g, the census generator
CG_ProbeAirbnb_Call_PassesG ==
    /\ At("cg_probe_airbnb")
    /\ "g" \in DOMAIN gens
    /\ SampleCall("cg_probe_airbnb", "probe", gens["g"], TRUE,
                  Frame("df_seed"), 0)
    /\ UNCHANGED <<nb, pc, frames, heap, nextId, gens, bound, config,
                   outcome, remote, out>>

\* syn_partial = mostly.probe(generator=g_airbnb, seed=df_seed)
CG_ProbeAirbnb_Call ==
    /\ At("cg_probe_airbnb")
    /\ "g_airbnb" \in DOMAIN gens
    /\ SampleCall("cg_probe_airbnb", "probe", gens["g_airbnb"], TRUE,
                  Frame("df_seed"), 0)
    /\ UNCHANGED <<nb, pc, frames, heap, nextId, gens, bound, config,
                   outcome, remote, out>>

CG_ProbeAirbnb_NameError ==
    /\ "g_airbnb" \notin DOMAIN gens
    /\ NameError("cg_probe_airbnb")

\* ... syn_partial is assigned; print(shape)
CG_ProbeAirbnb_Return ==
    /\ In("cg_probe_airbnb")
    /\ LET i == CallOf("cg_probe_airbnb")
       IN  /\ SdkCanSample(remote[calls[i].gen])
           /\ \E t \in SdkSample(remote[calls[i].gen], calls[i].hasSeed,
                                 calls[i].seed, calls[i].size) :
                /\ calls' = [calls EXCEPT ![i].state = "returned",
                                          ![i].result = t]
                /\ Assign("syn_partial", t)
                /\ out' = Append(out, [cell |-> "cg_probe_airbnb",
                                       kind |-> "print",
                                       records |-> NRowsOf(t),
                                       attributes |-> Cardinality(t.cols)])
    /\ Finish("cg_probe_airbnb", "ok")
    /\ UNCHANGED <<nb, gens, bound, config, remote>>

CG_ProbeAirbnb_Raise == CallRaises("cg_probe_airbnb")

\* price.clip(lower=50, upper=2_000)
Clip(v) == IF v < ClipLower THEN ClipLower ELSE IF v > ClipUpper THEN ClipUpper ELSE v

\* plot_manhatten(df, title): a scatter of df_orig's longitude and latitude,
\* point i coloured by the log of the clipped price of row i of df
plot_manhatten(df, title) ==
    [cell |-> "cg_plot_manhatten", kind |-> "scatter", title |-> title,
     points |-> [i \in 1..NRowsOf(Frame("df_orig")) |->
                   [x |-> Frame("df_orig").rows[i]["longitude"],
                    y |-> Frame("df_orig").rows[i]["latitude"],
                    log_of |-> Clip(df.rows[i]["price"])]]]

\* def plot_manhatten ...; plot_manhatten(df_orig, "Original Data");
\* plot_manhatten(syn_partial, "Partially Synthetic Data")
CG_PlotManhatten ==
    /\ At("cg_plot_manhatten")
    /\ bound' = bound \cup {"plot_manhatten"}
    /\ LET first == plot_manhatten(Frame("df_orig"), "Original Data")
       IN  IF Bound("syn_partial")
              /\ NRowsOf(Frame("syn_partial")) = NRowsOf(Frame("df_orig"))
           THEN /\ out' = out \o <<first,
                            plot_manhatten(Frame("syn_partial"),
                                           "Partially Synthetic Data")>>
                /\ Finish("cg_plot_manhatten", "ok")
           ELSE /\ out' = Append(out, first)
                /\ Finish("cg_plot_manhatten", "error")
    /\ UNCHANGED <<nb, frames, heap, nextId, gens, config, calls, remote>>

Next ==
    \/ SdkTrainDone \/ SdkTrainFail
    \/ GS_Pip \/ GS_Load \/ GS_Init
    \/ GS_Train_Call \/ GS_Train_Return \/ GS_Train_Raise
    \/ GS_Probe_Call \/ GS_Probe_NameError \/ GS_Probe_Return \/ GS_Probe_Raise
    \/ GS_Generate_Call \/ GS_Generate_NameError \/ GS_Generate_Return
    \/ GS_Generate_Raise
    \/ GS_SeedProbe_Call \/ GS_SeedProbe_NameError \/ GS_SeedProbe_Return
    \/ GS_SeedProbe_Raise
    \/ CG_Pip \/ CG_Load \/ CG_Init
    \/ CG_Train_Call \/ CG_Train_Return \/ CG_Train_Raise
    \/ CG_Seed
    \/ CG_Probe_Call \/ CG_Probe_NameError \/ CG_Probe_Return \/ CG_Probe_Raise
    \/ CG_Sample \/ CG_PlotAge \/ CG_LoadAirbnb \/ CG_Preprocess
    \/ CG_TrainAirbnb_Call \/ CG_TrainAirbnb_Return \/ CG_TrainAirbnb_Raise
    \/ CG_ProbeAirbnb_Call \/ CG_ProbeAirbnb_NameError
    \/ CG_ProbeAirbnb_Return \/ CG_ProbeAirbnb_Raise
    \/ CG_PlotManhatten

Spec == Init /\ [][Next]_vars

(***************************************************************************)
(* Properties.                                                             *)
(***************************************************************************)
SampleCalls == {i \in DOMAIN calls : calls[i].op \in {"probe", "generate"}}

TrainCalls == {i \in DOMAIN calls : calls[i].op = "train"}

SeededProbes == {i \in SampleCalls : calls[i].hasSeed}

\* the train cell whose generator the call site names (g, g_airbnb)
TrainSiteOf(site) ==
    CASE site \in {"gs_probe", "gs_generate", "gs_seed_probe"} -> "gs_train"
      [] site = "cg_probe" -> "cg_train"
      [] site = "cg_probe_airbnb" -> "cg_train_airbnb"

\* C1: every probe and generate call passes a handle that an earlier train
\* call returned, and it is the handle of the train cell of its notebook
\* that assigned the name the call passes: g (the census generator) or
\* g_airbnb (the AirBnB generator).
C1_HandleFromEarlierTrain ==
    \A i \in SampleCalls :
        \E j \in TrainCalls :
            /\ j < i
            /\ calls[j].state = "returned"
            /\ calls[j].gen = calls[i].gen
            /\ calls[j].site = TrainSiteOf(calls[i].site)

C1_Witness ==
    /\ Len(calls) = 4
    /\ calls[2].site = "cg_probe"
    /\ calls[4].site = "cg_probe_airbnb"
    /\ calls[4].state = "returned"

\* C2: every train call is made with wait=True, a train call that waits
\* returns only when the training is done, and so the training of the
\* generator of every probe and generate call is done when the call is made
\* (and stays done).
C2_TrainingDoneBeforeSampling ==
    /\ \A j \in TrainCalls :
          /\ calls[j].wait
          /\ calls[j].state = "returned" => remote[calls[j].gen].status = "DONE"
    /\ \A i \in SampleCalls : remote[calls[i].gen].status = "DONE"

C2_Witness ==
    \E i \in SampleCalls :
        /\ calls[i].site = "gs_generate"
        /\ calls[i].state = "outstanding"
        /\ \E j \in TrainCalls : calls[j].site = "gs_train" /\ calls[j].wait

\* C3: a seeded probe returns one record per seed row, record r carrying the
\* values of seed row r in the seed's columns; the getting-started seed of
\* SeedSize rows (1,000 in the notebook) of age 24 and native_country
\* Mexico gives SeedSize records, all of age 24 and native_country Mexico.
C3_SeedCarried ==
    \A i \in SeededProbes :
        calls[i].state = "returned" =>
            LET seed == calls[i].seed
                res == calls[i].result
            IN  /\ NRowsOf(res) = NRowsOf(seed)
                /\ seed.cols \subseteq res.cols
                /\ \A r \in 1..NRowsOf(seed) : \A c \in seed.cols :
                      res.rows[r][c] = seed.rows[r][c]
                /\ calls[i].site = "gs_seed_probe" =>
                      /\ NRowsOf(res) = SeedSize
                      /\ \A r \in 1..NRowsOf(res) :
                            /\ res.rows[r]["age"] = 24
                            /\ res.rows[r]["native_country"] = "Mexico"

C3_Witness ==
    \E i \in SeededProbes :
        /\ calls[i].site = "gs_seed_probe"
        /\ calls[i].state = "returned"
        /\ \E r \in 1..NRowsOf(calls[i].result) :
              calls[i].result.rows[r]["sex"] = "Female"

\* the train call that created the generator a call passes
TrainCallOf(i) == CHOOSE j \in TrainCalls : calls[j].gen = calls[i].gen

\* C4: every seed passed to probe has only columns of the table its
\* generator was trained on; the seeds {age, native_country} and
\* {sex, income} go to generators trained on the census table, the seed
\* {neighbourhood, LAT_LONG} to the generator trained on the preprocessed
\* AirBnB table (the table df of use case 2).
C4_SeedColumnsOfTrainedTable ==
    \A i \in SeededProbes :
        LET t == calls[TrainCallOf(i)]
        IN  /\ calls[i].seed.cols \subseteq t.cols
            /\ calls[i].seed.cols \in {{"age", "native_country"}, {"sex", "income"}}
                  => /\ t.site \in {"gs_train", "cg_train"}
                     /\ t.cols = CensusColumns
            /\ calls[i].seed.cols = {"neighbourhood", "LAT_LONG"}
                  => /\ t.site = "cg_train_airbnb"
                     /\ t.config.tables[1].data = frames["df"]
                     /\ t.cols = Frame("df").cols
                     /\ "LAT_LONG" \in t.cols
            /\ calls[i].seed.cols \in {{"age", "native_country"}, {"sex", "income"},
                                       {"neighbourhood", "LAT_LONG"}}

C4_Witness ==
    /\ \E i \in SeededProbes : calls[i].site = "cg_probe"
    /\ \E i \in SeededProbes : calls[i].site = "cg_probe_airbnb"

\* the encoding types of the SDK's interface
RecognizedEncodingTypes ==
    {"TABULAR_CATEGORICAL", "TABULAR_NUMERIC_AUTO", "TABULAR_DATETIME",
     "TABULAR_LAT_LONG"}

\* C5: in every column configuration passed to train, each entry has
\* exactly the keys name and model_encoding_type, its type is a recognized
\* one, no column name occurs twice, and the latitude/longitude encoding
\* is given to LAT_LONG and to no other column.
C5_ColumnConfigurationWellFormed ==
    \A j \in TrainCalls :
        LET tbl == calls[j].config.tables[1]
        IN  "columns" \in DOMAIN tbl =>
              LET es == tbl.columns
              IN  /\ \A k \in DOMAIN es :
                        /\ DOMAIN es[k] = {"name", "model_encoding_type"}
                        /\ es[k].model_encoding_type \in RecognizedEncodingTypes
                        /\ (es[k].model_encoding_type = "TABULAR_LAT_LONG")
                              <=> (es[k].name = "LAT_LONG")
                  /\ \A k, l \in DOMAIN es : es[k].name = es[l].name => k = l
                  /\ \E k \in DOMAIN es : es[k].name = "LAT_LONG"

C5_Witness ==
    \E j \in TrainCalls :
        /\ calls[j].site = "cg_train_airbnb"
        /\ "columns" \in DOMAIN calls[j].config.tables[1]
        /\ Len(calls[j].config.tables[1].columns) > 1

\* the name a call's cell assigns the result of the call to
ResultName(site) ==
    CASE site \in {"gs_train", "cg_train"} -> "g"
      [] site = "cg_train_airbnb" -> "g_airbnb"
      [] site \in {"gs_probe", "gs_seed_probe"} -> "df_samples"
      [] site = "gs_generate" -> "df_synthetic"
      [] site = "cg_probe" -> "syn"
      [] site = "cg_probe_airbnb" -> "syn_partial"

\* C6: no call site issues its call twice (no retry); a failed call ends
\* its cell with the error; what follows the call in the cell does not run
\* (no report, no print, sd not assigned), and the cell's result name is
\* not assigned by it: the name is unbound or holds what another cell's
\* returned call gave it.  A failed train in getting-started leaves g
\* unassigned and g.reports uncalled.
C6_NoRetryErrorSurfaces ==
    /\ \A i, j \in DOMAIN calls : calls[i].site = calls[j].site => i = j
    /\ \A i \in DOMAIN calls :
          calls[i].state = "failed" =>
            LET site == calls[i].site
                name == ResultName(site)
            IN  /\ site \in DOMAIN outcome
                /\ outcome[site] = "error"
                /\ \A k \in DOMAIN out : out[k].cell # site
                /\ site = "gs_generate" => "sd" \notin bound
                /\ site = "gs_train" => "g" \notin DOMAIN gens
                /\ calls[i].op = "train" /\ name \in DOMAIN gens =>
                      \E j \in TrainCalls \ {i} :
                          /\ calls[j].state = "returned"
                          /\ ResultName(calls[j].site) = name
                          /\ gens[name] = calls[j].gen
                /\ calls[i].op # "train" /\ Bound(name) =>
                      \E j \in SampleCalls \ {i} :
                          /\ calls[j].state = "returned"
                          /\ ResultName(calls[j].site) = name
                          /\ Frame(name) = calls[j].result

C6_Witness ==
    /\ \E i \in TrainCalls : calls[i].site = "gs_train" /\ calls[i].state = "failed"
    /\ "gs_seed_probe" \in DOMAIN outcome
    /\ outcome["gs_seed_probe"] = "error"

\* C7: at most one SDK call is outstanding, it is the last one issued, and
\* the kernel is waiting in it: every call has returned or failed before
\* the next one is issued.
C7_OneCallAtATime ==
    /\ Cardinality(Outstanding) <= 1
    /\ \A i \in Outstanding : i = Len(calls) /\ waiting

C7_Witness ==
    /\ Len(calls) = 3
    /\ Outstanding = {3}
    /\ calls[1].state = "returned"
    /\ calls[2].state = "failed"

\* C8 (as claimed): the column configuration of the AirBnB training has
\* exactly one entry per column of the table passed as data and none for
\* another column, that table being the original dataset of 10 columns
\* with latitude and longitude dropped and LAT_LONG added.
C8_ColumnsMatchTenColumnData ==
    \A j \in TrainCalls :
        calls[j].site = "cg_train_airbnb" =>
            LET es == calls[j].config.tables[1].columns
                orig == Frame("df_orig").cols
            IN  /\ {es[k].name : k \in DOMAIN es} = calls[j].cols
                /\ \A k, l \in DOMAIN es : es[k].name = es[l].name => k = l
                /\ Cardinality(orig) = 10
                /\ calls[j].cols = (orig \ AirbnbGeoColumns) \cup {"LAT_LONG"}

\* C9: the preprocessing works on a copy.  After it df has LAT_LONG, the
\* text "<latitude>, <longitude>" of the same row of df_orig, and neither
\* latitude nor longitude; df_orig is another object, has latitude and
\* longitude and no LAT_LONG; and no step changes the object df_orig
\* names or its table, so its rows are those that were loaded, in order.
C9_PreprocessingOnCopy ==
    /\ [](("cg_preprocess" \in DOMAIN outcome) =>
            LET d == Frame("df")
                o == Frame("df_orig")
            IN  /\ frames["df"] # frames["df_orig"]
                /\ "LAT_LONG" \in d.cols
                /\ d.cols \cap AirbnbGeoColumns = {}
                /\ AirbnbGeoColumns \subseteq o.cols
                /\ "LAT_LONG" \notin o.cols
                /\ NRowsOf(d) = NRowsOf(o)
                /\ \A i \in 1..NRowsOf(o) :
                      /\ d.rows[i]["LAT_LONG"] =
                            LatLongText(o.rows[i]["latitude"], o.rows[i]["longitude"])
                      /\ \A c \in o.cols \ AirbnbGeoColumns :
                            d.rows[i][c] = o.rows[i][c])
    /\ [][Bound("df_orig") =>
            /\ frames'["df_orig"] = frames["df_orig"]
            /\ heap'[frames'["df_orig"]] = heap[frames["df_orig"]]]_vars

C9_Witness ==
    /\ "cg_preprocess" \in DOMAIN outcome
    /\ Frame("df").rows[1]["LAT_LONG"] = "40.7, -74.0"
    /\ Frame("df").rows[2]["LAT_LONG"] = "40.8, -73.9"
    /\ Frame("df_orig").rows[2]["longitude"] = -739

\* the scatter plots drawn with the given title
Scatters(title) ==
    {k \in DOMAIN out : out[k].kind = "scatter" /\ out[k].title = title}

\* C10: plot_manhatten places point i at the longitude and latitude of row
\* i of df_orig whatever its argument, and colours it by the clipped price
\* of row i of its argument; in the plot of syn_partial that place is the
\* LAT_LONG of record i of syn_partial, for every i.
C10_PlotAlignsSyntheticPrices ==
    /\ \A k \in Scatters("Partially Synthetic Data") :
          LET s == Frame("syn_partial")
              o == Frame("df_orig")
              pts == out[k].points
          IN  /\ Len(pts) = NRowsOf(o)
              /\ NRowsOf(s) = NRowsOf(o)
              /\ \A i \in 1..NRowsOf(o) :
                    /\ pts[i].x = o.rows[i]["longitude"]
                    /\ pts[i].y = o.rows[i]["latitude"]
                    /\ pts[i].log_of = Clip(s.rows[i]["price"])
                    /\ s.rows[i]["LAT_LONG"] = LatLongText(pts[i].y, pts[i].x)
    /\ \A k \in Scatters("Original Data") :
          LET o == Frame("df_orig")
              pts == out[k].points
          IN  /\ Len(pts) = NRowsOf(o)
              /\ \A i \in 1..NRowsOf(o) :
                    /\ pts[i].x = o.rows[i]["longitude"]
                    /\ pts[i].y = o.rows[i]["latitude"]
                    /\ pts[i].log_of = Clip(o.rows[i]["price"])

C10_Witness ==
    \E k \in Scatters("Partially Synthetic Data") :
        /\ Frame("syn_partial").rows[1]["price"] = 3000
        /\ out[k].points[1].log_of = 2000
        /\ out[k].points[1].y = 407
        /\ Frame("syn_partial").rows[1]["LAT_LONG"] = "40.7, -74.0"
        /\ Frame("df_orig").rows[1]["price"] = 30
        /\ out[k].points[2].y = 408

\* the DataFrame object a train call received as the data of its table
TrainData(j) == calls[j].config.tables[1].data

\* the table the preprocessing makes of the fetched AirBnB table
Preprocessed(t) ==
    DropColumns(SetColumn(t, "LAT_LONG", LatLongColumn(t)), AirbnbGeoColumns)

\* C11: a dataset is not changed after it has been passed to train.  Every
\* train call of the conditional-generation notebook receives the object df
\* names: the fetched census data when g is trained, the preprocessed
\* AirBnB data when g_airbnb is trained.  The age-distribution plot reads the
\* census object that the training of g received.  The preprocessing binds
\* df to an object that did not exist before, so to none a train call
\* received.  No step of either notebook changes the table of an object
\* that a train call has received.
C11_DatasetUnchangedAfterTrain ==
    [][/\ (nb = "cg" /\ Len(calls') = Len(calls) + 1
                /\ calls'[Len(calls')].op = "train") =>
            LET c == calls'[Len(calls')]
            IN  /\ Bound("df")
                /\ c.config.tables[1].data = frames["df"]
                /\ c.site = "cg_train" =>
                      Frame("df") \in Tables(CensusColumns, NRows)
                /\ c.site = "cg_train_airbnb" =>
                      /\ Bound("df_orig")
                      /\ Frame("df") = Preprocessed(Frame("df_orig"))
       /\ (Len(out') = Len(out) + 1 /\ out'[Len(out')].kind = "kde") =>
            /\ out'[Len(out')].original = frames["df"]
            /\ Frame("df") \in Tables(CensusColumns, NRows)
            /\ \A j \in TrainCalls :
                  calls[j].site = "cg_train" => TrainData(j) = frames["df"]
       /\ (At("cg_preprocess") /\ pc' # pc) =>
            /\ frames'["df"] \notin DOMAIN heap
            /\ frames'["df"] # frames["df"]
            /\ \A j \in TrainCalls : TrainData(j) # frames'["df"]
       /\ \A j \in TrainCalls :
            (TrainData(j) \in DOMAIN heap /\ TrainData(j) \in DOMAIN heap') =>
                heap'[TrainData(j)] = heap[TrainData(j)]
      ]_vars

C11_Witness ==
    /\ nb = "cg"
    /\ pc > Len(CG_Cells)
    /\ \E k \in DOMAIN out : out[k].kind = "kde"
    /\ \E i, j \in TrainCalls :
          /\ calls[i].site = "cg_train"
          /\ calls[j].site = "cg_train_airbnb"
          /\ calls[j].state = "returned"
          /\ TrainData(i) # TrainData(j)
          /\ TrainData(j) = frames["df"]
          /\ "LAT_LONG" \in Frame("df").cols
          /\ Frame("df").rows[2]["LAT_LONG"] = "40.8, -73.9"

====
